---- MODULE Spec2Model ----
(***************************************************************************)
(* Conversation management of the WooCommerce chat client.                 *)
(*                                                                         *)
(* Text is a sequence of tokens (strings): the tokens of a user input are  *)
(* single characters, so that trim() is computed; fixed phrases of the     *)
(* program are one token each, so that template strings are real           *)
(* concatenations.                                                         *)
(***************************************************************************)
EXTENDS Integers, Sequences, FiniteSets, TLC

VARIABLES
    messages,            \* useChat: useState<Message[]>
    isLoading,           \* useChat: useState(false)
    error,               \* useChat: useState<string | null>
    lastUserMessageRef,  \* useChat: useRef<string>('')
    abortControllerRef,  \* useChat: useRef<AbortController | null>, 0 is null
    renderedIsLoading,   \* the isLoading captured by the callbacks of the last render
    sends,               \* the getChatCompletion calls made so far, with their signals
    now,                 \* Date.now()
    event,               \* the last call or settlement that ran (history variable)
    steps,               \* the statements of sendMessage the last step ran, in
                         \* program order (history variable)
    conversationHistory, \* OpenAIService: ChatMessage[]
    productCache,        \* OpenAIService: WooCommerceProduct[]
    productCacheTime,    \* OpenAIService: number
    apiKey,              \* openAIConfig.apiKey is set
    svcCalls,            \* the OpenAIService.sendMessage calls made so far
    appProducts,         \* App: useState<WooCommerceProduct[]>, the catalog
    scorerQuery,         \* findRelevantProducts: its argument
    scorerDone,          \* findRelevantProducts has returned
    scorerOutput,        \* what findRelevantProducts returned
    scorerContext,       \* the context block rendered from it
    appMessages,         \* App: useState<Message[]>
    appIsLoading,        \* App: useState(false)
    isLoadingProducts,   \* App: useState(false)
    isSettingsOpen,      \* App: useState(false)
    appSettings,         \* App: useState<Settings>, as saved
    storage,             \* localStorage, the item under STORAGE_KEYS.MESSAGES
    appTurns,            \* the handleSendMessage calls in flight on this page
    upProducts,          \* useProducts: useState<WooCommerceProduct[]>([])
    upIsLoading,         \* useProducts: useState(false)
    upError,             \* useProducts: useState<string | null>(null)
    upFetches            \* the fetchProducts calls made so far: how each stands

hookVars == <<messages, isLoading, error, lastUserMessageRef, abortControllerRef,
              renderedIsLoading, sends>>
productsVars == <<upProducts, upIsLoading, upError, upFetches>>
\* the hooks and the record of the last useChat call
hookState == <<hookVars, steps, productsVars>>
svcVars == <<conversationHistory, productCache, productCacheTime, apiKey, svcCalls>>
\* the state outside the useChat hook
scorerVars == <<appProducts, scorerQuery, scorerDone, scorerOutput, scorerContext>>
appVars == <<appMessages, appIsLoading, isLoadingProducts, isSettingsOpen, appSettings,
             storage, appTurns>>
outside == <<svcVars, scorerVars, appVars, productsVars>>
\* the state outside the App
notApp == <<hookState, svcVars, scorerQuery, scorerDone, scorerOutput, scorerContext>>
vars == <<messages, isLoading, error, lastUserMessageRef, abortControllerRef,
          renderedIsLoading, sends, now, event, steps, outside>>

-----------------------------------------------------------------------------
(* Bounds *)

MaxSends == 3    \* accepted submits per behaviour
MaxTime == 2     \* milliseconds the clock advances per behaviour
MaxCalls == 2    \* OpenAIService.sendMessage calls per behaviour
MaxProducts == 6 \* products in the catalog
MaxStored == 2   \* messages in the transcript when a submit is made
MaxTurns == 1    \* handleSendMessage calls in flight at a time

-----------------------------------------------------------------------------
(* Text *)

\* the texts a caller submits: empty, whitespace only, plain, and padded with
\* an inner space
Inputs ==
    { <<>>, <<" ", " ">>, <<"a">>, <<" ", "a", " ", "b", " ">> }

IsSpace(c) == c = " "

RECURSIVE TrimStart(_)
TrimStart(s) ==
    IF Len(s) > 0 /\ IsSpace(Head(s)) THEN TrimStart(Tail(s)) ELSE s

RECURSIVE TrimEnd(_)
TrimEnd(s) ==
    IF Len(s) > 0 /\ IsSpace(s[Len(s)]) THEN TrimEnd(SubSeq(s, 1, Len(s) - 1)) ELSE s

\* String.prototype.trim
Trim(s) == TrimEnd(TrimStart(s))

\* string | null
NULL == <<>>
Some(t) == <<t>>

-----------------------------------------------------------------------------
(* The completion call *)

Replies == {<<"Here are some products.">>}

\* what a rejected promise carries: err instanceof Error, err.name, err.message
Thrown(isErr, name, message) == [isError |-> isErr, name |-> name, message |-> message]

AbortError == Thrown(TRUE, "AbortError", <<"The user aborted a request.">>)

\* non-2xx answers of the completion API: the status, whether the body parses
\* as JSON, and the body's error.message (<<>> when it is empty or missing)
FailedResponses ==
    { [status |-> "401", json |-> TRUE,  message |-> <<"invalid api key">>],
      [status |-> "500", json |-> TRUE,  message |-> <<>>],
      [status |-> "502", json |-> FALSE, message |-> <<>>] }

\* openaiService.ts:117-125, the message of the Error thrown for a non-ok response
ResponseErrorMessage(resp) ==
    LET errorData == IF resp.json THEN resp.message ELSE <<"An unknown error occurred">>
    IN  IF errorData # <<>> THEN errorData
        ELSE <<"HTTP error! status: " \o resp.status>>

Resolve(text) ==
    [kind |-> "resolve", cause |-> "reply", value |-> text, err |-> Thrown(FALSE, "", <<>>)]
Reject(cause, err) ==
    [kind |-> "reject", cause |-> cause, value |-> <<>>, err |-> err]
Pending ==
    [kind |-> "pending", cause |-> "", value |-> <<>>, err |-> Thrown(FALSE, "", <<>>)]

\* a call whose promise has settled and was consumed
Settled ==
    [content |-> <<>>, aborted |-> FALSE,
     result |-> [kind |-> "settled", cause |-> "", value |-> <<>>,
                 err |-> Thrown(FALSE, "", <<>>)]]

\* what the completion call throws besides an AbortError: the Error of a
\* non-ok response (cause: its status)
Failures ==
    { Reject(resp.status, Thrown(TRUE, "Error", ResponseErrorMessage(resp))) :
        resp \in FailedResponses }

\* The ways openAIService.getChatCompletion(content, products, signal) can settle:
\* a call whose signal was aborted fails with an AbortError, any other call
\* returns the reply or fails with another error.
GetChatCompletionResults(aborted) ==
    IF aborted THEN {Reject("abort", AbortError)}
    ELSE {Resolve(t) : t \in Replies} \cup Failures

\* the last call or settlement: its name, its text argument or cause, its request
Event(op, text, req) == [op |-> op, text |-> text, req |-> req]

-----------------------------------------------------------------------------
(* The catalog *)

\* The strings that are searched or cut are sequences of characters.

\* "Wireless Mouse"
WirelessMouseName == <<"W", "i", "r", "e", "l", "e", "s", "s", " ", "M", "o",
    "u", "s", "e">>

\* "Optical mouse"
WirelessMouseText == <<"O", "p", "t", "i", "c", "a", "l", " ", "m", "o", "u",
    "s", "e">>

\* "USB Cable"
UsbCableName == <<"U", "S", "B", " ", "C", "a", "b", "l", "e">>

\* "Fits under a mouse pad"
UsbCableText == <<"F", "i", "t", "s", " ", "u", "n", "d", "e", "r", " ", "a",
    " ", "m", "o", "u", "s", "e", " ", "p", "a", "d">>

\* "Mouse Pad"
MousePadName == <<"M", "o", "u", "s", "e", " ", "P", "a", "d">>

\* "<p>Soft pad</p>"
MousePadText == <<"<", "p", ">", "S", "o", "f", "t", " ", "p", "a", "d", "<",
    "/", "p", ">">>

\* "Desk Lamp"
DeskLampName == <<"D", "e", "s", "k", " ", "L", "a", "m", "p">>

\* "LED lamp"
DeskLampText == <<"L", "E", "D", " ", "l", "a", "m", "p">>

\* "Accessories"
Accessories == <<"A", "c", "c", "e", "s", "s", "o", "r", "i", "e", "s">>

\* "Office"
Office == <<"O", "f", "f", "i", "c", "e">>

\* WooCommerceProduct (woocommerceService.ts:3-35), the fields the program reads
Product(id, name, description, short, price, regular, onSale, stock, quantity, cats) ==
    [id |-> id, name |-> name, description |-> description,
     short_description |-> short, sku |-> <<"SKU-", ToString(id)>>,
     price |-> price, regular_price |-> regular, on_sale |-> onSale,
     stock_status |-> stock, stock_quantity |-> quantity, categories |-> cats,
     permalink |-> <<"https://store.example/p/", ToString(id)>>]

WirelessMouse ==
    Product(1, WirelessMouseName, WirelessMouseText, <<>>, <<"29.99">>, <<"39.99">>,
            TRUE, "instock", 4, <<Accessories>>)
UsbCable ==
    Product(2, UsbCableName, UsbCableText, <<>>, <<"5.00">>, <<"5.00">>,
            FALSE, "instock", 0, <<Accessories, Office>>)
MousePad ==
    Product(3, MousePadName, <<>>, MousePadText, <<"7.50">>, <<"7.50">>,
            FALSE, "outofstock", 0, <<Office>>)
DeskLamp ==
    Product(4, DeskLampName, DeskLampText, <<>>, <<"19.00">>, <<"19.00">>,
            FALSE, "instock", 0, <<>>)

-----------------------------------------------------------------------------
(* WooCommerceService *)

\* short_description.replace(/<[^>]*>/g, ''): the position after the tag that
\* opens at i, or 0 when no ">" follows
RECURSIVE TagEnd(_, _)
TagEnd(s, i) ==
    IF i > Len(s) THEN 0
    ELSE IF s[i] = ">" THEN i + 1
    ELSE TagEnd(s, i + 1)

RECURSIVE StripTags(_)
StripTags(s) ==
    IF s = <<>> THEN <<>>
    ELSE IF s[1] = "<" /\ TagEnd(s, 2) # 0
         THEN StripTags(SubSeq(s, TagEnd(s, 2), Len(s)))
         ELSE <<s[1]>> \o StripTags(Tail(s))

\* Array.prototype.join
RECURSIVE Join(_, _)
Join(parts, sep) ==
    IF parts = <<>> THEN <<>>
    ELSE IF Len(parts) = 1 THEN parts[1]
    ELSE parts[1] \o sep \o Join(Tail(parts), sep)

\* woocommerceService.ts:169-183
FormatProductForAI(product) ==
    LET categories == Join(product.categories, <<", ">>)
        inStock == product.stock_status = "instock"
        stockInfo == IF inStock
                     THEN (IF product.stock_quantity # 0
                           THEN <<ToString(product.stock_quantity), " in stock">>
                           ELSE <<"In stock">>)
                     ELSE <<"Out of stock">>
    IN  <<"Product: ">> \o product.name \o <<"\n">>
        \o <<"Price: $">> \o product.price
        \o (IF product.on_sale
            THEN <<" (Sale from $">> \o product.regular_price \o <<")">>
            ELSE <<>>) \o <<"\n">>
        \o <<"SKU: ">> \o product.sku \o <<"\n">>
        \o <<"Categories: ">> \o categories \o <<"\n">>
        \o <<"Stock: ">> \o stockInfo \o <<"\n">>
        \o <<"Description: ">> \o StripTags(product.short_description) \o <<"\n">>
        \o <<"Link: ">> \o product.permalink

\* woocommerceService.ts:185-193
FormatProductsForAI(products) ==
    IF Len(products) = 0 THEN <<"No products found.">>
    ELSE Join([index \in 1..Len(products) |->
                  <<ToString(index), ". ">> \o FormatProductForAI(products[index])],
              <<"\n\n">>)

\* the product lists the store answers a catalog request with
Catalogs == { <<>>, <<MousePad, UsbCable>> }

\* woocommerceService.ts:103-126 with 89-101: fetchProducts returns the list of
\* an ok response and throws the Error of any other
FetchProductsResults ==
    {Resolve(list) : list \in Catalogs}
        \cup {Reject("503", Thrown(TRUE, "Error", <<"An unknown error occurred">>))}

-----------------------------------------------------------------------------
(* OpenAIService *)

\* openaiService.ts:46
CACHE_DURATION == 5 * 60 * 1000

\* config/openai.ts:28-40
SYSTEM_PROMPT == <<"You are a helpful e-commerce assistant for a WooCommerce store.">>

ChatMessage(role, content) == [role |-> role, content |-> content]

\* openaiService.ts:55-62
InitializeConversation == <<ChatMessage("system", SYSTEM_PROMPT)>>

\* a history that is handed out as it is
WholeConversationHistory(history) == history

\* openaiService.ts:164-166
GetConversationHistory(history) ==
    SelectSeq(history, LAMBDA msg : msg.role # "system")

\* a cache that is fetched once and never again
NeedsFirstFetch(cache, cacheTime, t) == Len(cache) = 0

\* openaiService.ts:67, the condition under which getProductContext fetches
NeedsFetch(cache, cacheTime, t) ==
    Len(cache) = 0 \/ (t - cacheTime) > CACHE_DURATION

\* openaiService.ts:83
EnhanceMessageWithContext(productContext, userMessage) ==
    <<"Available Products:\n">> \o productContext
        \o <<"\n\nCustomer Question: ">> \o userMessage

\* a catch block that passes the failure on
RethrowProductContext(err) == [kind |-> "throw", value |-> <<>>, err |-> err]

\* openaiService.ts:71-74, the catch block of getProductContext
CatchProductContext(err) ==
    [kind |-> "return",
     value |-> <<"Product information is currently unavailable.">>,
     err |-> Thrown(FALSE, "", <<>>)]

\* a sendMessage call: its arguments, the signal its caller holds, where it
\* stands (pc), the now of its getProductContext (t0) and how its catalog
\* request ended (fetched), the HTTP requests it has issued (gets to the store,
\* posts to the completion API), the body of its POST, and how it ended
NewCall(userMessage, includeProductContext) ==
    [userMessage |-> userMessage, includeProductContext |-> includeProductContext,
     signal |-> FALSE, pc |-> "start", t0 |-> 0, fetched |-> "no", gets |-> 0,
     posts |-> 0, request |-> <<>>, value |-> <<>>,
     err |-> Thrown(FALSE, "", <<>>)]

\* a call that has ended keeps what it returned or the name of what it threw,
\* and the requests it issued
Ended(call, pc, value, err) ==
    [NewCall(<<>>, TRUE) EXCEPT !.pc = pc, !.value = value,
                                !.err = Thrown(err.isError, err.name, <<>>),
                                !.fetched = call.fetched, !.gets = call.gets,
                                !.posts = call.posts]

\* a catch block that issues the request again
RetryFrom(call, err) ==
    IF call.posts > 0 THEN [call EXCEPT !.posts = @ + 1]
    ELSE [call EXCEPT !.gets = @ + 1]

\* openaiService.ts:88-90 and 133-136
ThrowFrom(call, err) == Ended(call, "thrown", <<>>, err)

\* openaiService.ts:127-132
ReturnFrom(call, value) == Ended(call, "returned", value, Thrown(FALSE, "", <<>>))

\* openaiService.ts:97-115: the user message is pushed and the history is posted
PostFrom(call, history, content) ==
    [call EXCEPT !.pc = "completion", !.t0 = 0, !.posts = @ + 1,
                 !.request = Append(history, ChatMessage("user", content))]

ApiKeyError ==
    Thrown(TRUE, "Error",
           <<"OpenAI API key is not configured. Please set VITE_OPENAI_API_KEY in your environment variables.">>)

\* openaiService.ts:43-53, the service as constructed
SvcInit(key) ==
    /\ conversationHistory = InitializeConversation
    /\ productCache = <<>>
    /\ productCacheTime = 0
    /\ apiKey = key
    /\ svcCalls = <<>>

\* what the customer asks the service
Questions == { <<"Any mouse?">> }

\* the second argument of sendMessage: App passes a non-empty string
\* (part_000:209), which is truthy, and the parameter defaults to true
IncludeProductContext == {TRUE}

\* the ways the POST to the completion API ends (openaiService.ts:111-132)
CompletionResults == {Resolve(t) : t \in Replies} \cup Failures

\* openaiService.ts:86-115, sendMessage up to its first network await
OpenAISendMessage(userMessage, includeProductContext) ==
    LET call == NewCall(userMessage, includeProductContext)
        content == IF includeProductContext
                   THEN EnhanceMessageWithContext(FormatProductsForAI(productCache),
                                                  userMessage)
                   ELSE userMessage
    IN  /\ Len(svcCalls) < MaxCalls
        /\ IF ~apiKey
           THEN /\ svcCalls' = Append(svcCalls, ThrowFrom(call, ApiKeyError))
                /\ UNCHANGED conversationHistory
           ELSE IF includeProductContext
                   /\ NeedsFetch(productCache, productCacheTime, now)
           THEN /\ svcCalls' = Append(svcCalls,
                                      [call EXCEPT !.pc = "products", !.t0 = now,
                                                   !.gets = @ + 1])
                /\ UNCHANGED conversationHistory
           ELSE /\ svcCalls' = Append(svcCalls, PostFrom(call, conversationHistory, content))
                /\ conversationHistory' =
                       Append(conversationHistory, ChatMessage("user", content))
        /\ UNCHANGED <<productCache, productCacheTime, apiKey, now, event, hookState, scorerVars, appVars>>

\* openaiService.ts:64-115, sendMessage from the settlement of fetchProducts to
\* the POST
FetchProductsSettle(i, result) ==
    LET call == [svcCalls[i] EXCEPT
                    !.fetched = IF result.kind = "resolve" THEN "ok" ELSE "failed"]
        caught == CatchProductContext(result.err)
        productContext == IF result.kind = "resolve"
                          THEN FormatProductsForAI(result.value)
                          ELSE caught.value
        content == EnhanceMessageWithContext(productContext, call.userMessage)
    IN  /\ svcCalls[i].pc = "products"
        /\ result \in FetchProductsResults
        /\ IF result.kind = "resolve"
           THEN /\ productCache' = result.value
                /\ productCacheTime' = call.t0
           ELSE UNCHANGED <<productCache, productCacheTime>>
        /\ IF result.kind = "reject" /\ caught.kind = "throw"
           THEN /\ svcCalls' = [svcCalls EXCEPT ![i] = ThrowFrom(call, caught.err)]
                /\ UNCHANGED conversationHistory
           ELSE /\ svcCalls' = [svcCalls EXCEPT
                                   ![i] = PostFrom(call, conversationHistory, content)]
                /\ conversationHistory' =
                       Append(conversationHistory, ChatMessage("user", content))
        /\ UNCHANGED <<apiKey, now, event, hookState, scorerVars, appVars>>

\* openaiService.ts:111-136, sendMessage from the settlement of its POST on
CompletionSettle(i, result) ==
    LET call == svcCalls[i]
    IN  /\ call.pc = "completion"
        /\ result \in CompletionResults
        /\ IF result.kind = "resolve"
           THEN /\ conversationHistory' =
                       Append(conversationHistory, ChatMessage("assistant", result.value))
                /\ svcCalls' = [svcCalls EXCEPT ![i] = ReturnFrom(call, result.value)]
           ELSE /\ svcCalls' = [svcCalls EXCEPT ![i] = ThrowFrom(call, result.err)]
                /\ UNCHANGED conversationHistory
        /\ UNCHANGED <<productCache, productCacheTime, apiKey, now, event, hookState, scorerVars, appVars>>

\* openaiService.ts:160-162
ClearConversation ==
    /\ conversationHistory' = InitializeConversation
    /\ UNCHANGED <<productCache, productCacheTime, apiKey, svcCalls, now, event,
                   hookState, scorerVars, appVars>>

\* useChat.ts:43-45,118-120: the caller aborts the signal it holds for call i
SignalAbort(i) ==
    /\ svcCalls[i].pc \in {"products", "completion"}
    /\ ~svcCalls[i].signal
    /\ svcCalls' = [svcCalls EXCEPT ![i].signal = TRUE]
    /\ UNCHANGED <<conversationHistory, productCache, productCacheTime, apiKey,
                   now, event, hookState, scorerVars, appVars>>

\* the instants at which the service is used: at its construction, a
\* millisecond later, and a lifetime of the cache after each of the two
Instants == {0, 1, CACHE_DURATION, CACHE_DURATION + 1}

\* Date.now() (openaiService.ts:65): time passes up to a later instant
Elapse(t) ==
    /\ t > now
    /\ now' = t
    /\ UNCHANGED <<svcVars, event, hookState, scorerVars, appVars>>

ServiceNext ==
    \/ \E q \in Questions : \E include \in IncludeProductContext : OpenAISendMessage(q, include)
    \/ \E i \in DOMAIN svcCalls : \E result \in FetchProductsResults :
           FetchProductsSettle(i, result)
    \/ \E i \in DOMAIN svcCalls : \E result \in CompletionResults :
           CompletionSettle(i, result)
    \/ ClearConversation
    \/ \E i \in DOMAIN svcCalls : SignalAbort(i)
    \/ \E t \in Instants : Elapse(t)

-----------------------------------------------------------------------------
(* App: the relevance scorer and the context block *)

Range(seq) == {seq[i] : i \in DOMAIN seq}

UpperCase ==
    <<"A", "B", "C", "D", "E", "F", "G", "H", "I", "J", "K", "L", "M",
      "N", "O", "P", "Q", "R", "S", "T", "U", "V", "W", "X", "Y", "Z">>
LowerCase ==
    <<"a", "b", "c", "d", "e", "f", "g", "h", "i", "j", "k", "l", "m",
      "n", "o", "p", "q", "r", "s", "t", "u", "v", "w", "x", "y", "z">>

\* the lower-case letter of each upper-case letter
Lower == [c \in Range(UpperCase) |->
             LowerCase[CHOOSE k \in 1..Len(UpperCase) : UpperCase[k] = c]]

\* String.prototype.toLowerCase
ToLowerCase(s) ==
    [i \in 1..Len(s) |-> IF s[i] \in DOMAIN Lower THEN Lower[s[i]] ELSE s[i]]

\* String.prototype.split(' '): the pieces between the spaces, empty ones too
RECURSIVE SplitOnSpace(_, _)
SplitOnSpace(s, piece) ==
    IF s = <<>> THEN <<piece>>
    ELSE IF s[1] = " " THEN <<piece>> \o SplitOnSpace(Tail(s), <<>>)
    ELSE SplitOnSpace(Tail(s), Append(piece, s[1]))

\* String.prototype.includes
Includes(text, word) ==
    \E i \in 1..(Len(text) - Len(word) + 1) : SubSeq(text, i, i + Len(word) - 1) = word

\* part_000:152-153
Keywords(query) ==
    SelectSeq(SplitOnSpace(ToLowerCase(query), <<>>), LAMBDA word : Len(word) > 2)

\* part_000:157
ProductText(product) ==
    ToLowerCase(product.name \o <<" ">> \o product.description \o <<" ">>
                \o product.short_description \o <<" ">>
                \o Join(product.categories, <<" ">>))

RECURSIVE Sum(_)
Sum(numbers) == IF numbers = <<>> THEN 0 ELSE numbers[1] + Sum(Tail(numbers))

\* a score that counts a match in the name like any other
ScoreUnweighted(product, keywords) ==
    LET productText == ProductText(product)
    IN  Sum([k \in 1..Len(keywords) |->
                IF Includes(productText, keywords[k]) THEN 1 ELSE 0])

\* part_000:155-166
Score(product, keywords) ==
    LET productText == ProductText(product)
        name == ToLowerCase(product.name)
    IN  Sum([k \in 1..Len(keywords) |->
                (IF Includes(productText, keywords[k]) THEN 1 ELSE 0)
                + (IF Includes(name, keywords[k]) THEN 3 ELSE 0)])

\* a place ahead of the items of the same score
RECURSIVE InsertAheadOfTies(_, _)
InsertAheadOfTies(sorted, item) ==
    IF sorted = <<>> THEN <<item>>
    ELSE IF sorted[1].score > item.score
         THEN <<sorted[1]>> \o InsertAheadOfTies(Tail(sorted), item)
         ELSE <<item>> \o sorted

\* the place of item in a list sorted by descending score: behind every item
\* that does not score less
RECURSIVE InsertByScore(_, _)
InsertByScore(sorted, item) ==
    IF sorted = <<>> THEN <<item>>
    ELSE IF sorted[1].score >= item.score
         THEN <<sorted[1]>> \o InsertByScore(Tail(sorted), item)
         ELSE <<item>> \o sorted

\* a sort that leaves the list as it is
Unsorted(items) == items

\* part_000:173, Array.prototype.sort((a, b) => b.score - a.score), which is stable
RECURSIVE SortByScore(_)
SortByScore(items) ==
    IF items = <<>> THEN <<>>
    ELSE InsertByScore(SortByScore(SubSeq(items, 1, Len(items) - 1)), items[Len(items)])

\* Array.prototype.slice(0, n), String.prototype.substring(0, n)
Slice(seq, n) == SubSeq(seq, 1, IF Len(seq) < n THEN Len(seq) ELSE n)

\* part_000:149-176
FindRelevantProducts(query, products) ==
    IF Len(products) = 0 THEN <<>>
    ELSE LET keywords == Keywords(query)
             scoredProducts == [i \in 1..Len(products) |->
                                   [product |-> products[i],
                                    score |-> Score(products[i], keywords)]]
             top == Slice(SortByScore(SelectSeq(scoredProducts,
                                                LAMBDA item : item.score > 0)), 5)
         IN  [i \in 1..Len(top) |-> top[i].product]

\* part_000:203, the line of one product
ProductLine(p) ==
    <<"- ">> \o p.name \o <<": ">>
        \o (IF p.short_description # <<>> THEN p.short_description
            ELSE Slice(p.description, 100))
        \o <<" (Price: $">> \o p.price \o <<", Stock: ", p.stock_status, ")">>

\* part_000:201-205
ProductContext(relevantProducts) ==
    IF Len(relevantProducts) > 0
    THEN <<"\n\nRelevant products from our catalog:\n">>
         \o Join([i \in 1..Len(relevantProducts) |-> ProductLine(relevantProducts[i])],
                 <<"\n">>)
    ELSE <<"\n\nNo specific products found matching your query, but I can help with general information.">>

\* "wireless mouse"
WirelessMouseQuery == <<"w", "i", "r", "e", "l", "e", "s", "s", " ", "m",
    "o", "u", "s", "e">>

\* "Mouse  PAD"
MousePadQuery == <<"M", "o", "u", "s", "e", " ", " ", "P", "A", "D">>

\* "my usb"
UsbQuery == <<"m", "y", " ", "u", "s", "b">>

\* "mouse"
MouseQuery == <<"m", "o", "u", "s", "e">>

\* ""
NoQuery == <<>>

\* the texts the customer asks for
Queries == {WirelessMouseQuery, MousePadQuery, UsbQuery, MouseQuery, NoQuery}

\* the products a store offers
Offered == {WirelessMouse, UsbCable, MousePad, DeskLamp}

\* the catalogs of at most n products
CatalogsUpTo(n) == UNION {[1..k -> Offered] : k \in 0..n}

\* a call of findRelevantProducts that has not returned yet
ScorerInit ==
    /\ scorerDone = FALSE
    /\ scorerOutput = <<>>
    /\ scorerContext = <<>>

\* part_000:199-205, handleSendMessage scores its argument against the catalog
\* and renders the context block
ScoreAndRender ==
    /\ ~scorerDone
    /\ scorerDone' = TRUE
    /\ scorerOutput' = FindRelevantProducts(scorerQuery, appProducts)
    /\ scorerContext' = ProductContext(scorerOutput')
    /\ UNCHANGED <<scorerQuery, appProducts, hookState, svcVars, appVars, now, event>>

-----------------------------------------------------------------------------
(* App: transcript, settings and storage *)

\* new Date(): a time value
Date(t) == [time |-> t]

\* Date.prototype.toJSON: the text form of a time value
ToISOString(date) == <<"1970-01-01T00:00:00.", ToString(date.time), "Z">>

\* new Date(text): the time value of a text form
NewDate(text) == Date(CHOOSE t \in 0..MaxTime : ToString(t) = text[2])

\* part_000:138-147, the transcript after addMessage; relatedProducts is NULL
\* when the argument is undefined
AddMessage(msgs, role, content, relatedProducts, t) ==
    Append(msgs, [id |-> ToString(t), role |-> role, content |-> content,
                  timestamp |-> Date(t), products |-> relatedProducts])

\* JSON.stringify of a message: the timestamp becomes text
StringifyMessage(msg) == [msg EXCEPT !.timestamp = ToISOString(msg.timestamp)]

\* a message taken from the parsed JSON as it is
Unrevived(msg) == msg

\* part_000:68-71, a parsed message gets its timestamp back as a time value
ReviveMessage(msg) == [msg EXCEPT !.timestamp = NewDate(msg.timestamp)]

\* part_000:79-83, the item under STORAGE_KEYS.MESSAGES after the save effect
SaveEffect(msgs, item) ==
    IF Len(msgs) > 0
    THEN Some([i \in 1..Len(msgs) |-> StringifyMessage(msgs[i])])
    ELSE item

\* part_000:64-76, the transcript after the mount effect
LoadMessages(item) ==
    IF item # NULL
    THEN [i \in 1..Len(item[1]) |-> ReviveMessage(item[1][i])]
    ELSE <<>>

\* the settings record: which of its fields are non-empty
Settings(key, url, consumerKey, consumerSecret) ==
    [openaiApiKey |-> key, woocommerceUrl |-> url,
     woocommerceConsumerKey |-> consumerKey,
     woocommerceConsumerSecret |-> consumerSecret]

\* the saved settings: complete, or with one field missing
SavedSettings ==
    { Settings(TRUE, TRUE, TRUE, TRUE), Settings(FALSE, TRUE, TRUE, TRUE),
      Settings(TRUE, FALSE, TRUE, TRUE), Settings(TRUE, TRUE, FALSE, TRUE),
      Settings(TRUE, TRUE, TRUE, FALSE) }

\* part_000:125, the condition under which the store client is configured
StoreConfigured(s) ==
    s.woocommerceUrl /\ s.woocommerceConsumerKey /\ s.woocommerceConsumerSecret

\* part_000:179
MissingApiKey(s) == ~s.openaiApiKey

\* part_000:185
MissingStore(s) == ~s.woocommerceUrl \/ ~s.woocommerceConsumerKey

ApiKeyPrompt ==
    <<"Please configure your OpenAI API key in settings to use the chatbot.">>
StorePrompt ==
    <<"Please configure your WooCommerce connection in settings to access product information.">>
LoadFailedText ==
    <<"Failed to load products. Please check your WooCommerce connection settings.">>

\* part_000:214-215
AppErrorText(err) ==
    <<"Sorry, I encountered an error: ">>
        \o (IF err.isError THEN err.message
            ELSE <<"An error occurred while processing your message.">>)
        \o <<". Please check your API key and try again.">>

\* a handleSendMessage call past its guards: its argument, the products of the
\* render it was created in, where it stands, and its relevantProducts
Turn(userMessage, seen, pc, relevant) ==
    [userMessage |-> userMessage, seen |-> seen, pc |-> pc, relevant |-> relevant]

EndedTurn == Turn(<<>>, <<>>, "done", <<>>)

\* the calls in flight once call i has returned
WithoutTurn(turns, i) ==
    SubSeq(turns, 1, i - 1) \o SubSeq(turns, i + 1, Len(turns))

\* the ways openAIService.sendMessage ends for its caller: the reply, or the
\* Error of a 401 answer
AppCompletionResults == {result \in CompletionResults : result.cause \in {"reply", "401"}}

\* part_000:30-38 and 40-77, the App as mounted over the item of its storage
AppMounted(item) ==
    /\ appMessages = LoadMessages(item)
    /\ storage = SaveEffect(LoadMessages(item), item)
    /\ appIsLoading = FALSE
    /\ isLoadingProducts = FALSE
    /\ isSettingsOpen = FALSE
    /\ appTurns = <<>>

\* part_000:178-209, handleSendMessage up to its first await
HandleSendMessage(userMessage) ==
    /\ Len(appMessages) < MaxStored
    /\ Len(appTurns) < MaxTurns
    /\ IF MissingApiKey(appSettings)
       THEN /\ appMessages' = AddMessage(appMessages, "assistant", ApiKeyPrompt, NULL, now)
            /\ isSettingsOpen' = TRUE
            /\ UNCHANGED <<appIsLoading, isLoadingProducts, appTurns>>
       ELSE IF MissingStore(appSettings)
       THEN /\ appMessages' = AddMessage(appMessages, "assistant", StorePrompt, NULL, now)
            /\ isSettingsOpen' = TRUE
            /\ UNCHANGED <<appIsLoading, isLoadingProducts, appTurns>>
       ELSE /\ appMessages' = AddMessage(appMessages, "user", userMessage, NULL, now)
            /\ appIsLoading' = TRUE
            /\ IF Len(appProducts) = 0
               THEN /\ isLoadingProducts' = TRUE
                    /\ appTurns' = Append(appTurns,
                                          Turn(userMessage, appProducts, "loadProducts", <<>>))
               ELSE /\ appTurns' = Append(appTurns,
                                          Turn(userMessage, appProducts, "completion",
                                               FindRelevantProducts(userMessage, appProducts)))
                    /\ UNCHANGED isLoadingProducts
            /\ UNCHANGED isSettingsOpen
    /\ storage' = SaveEffect(appMessages', storage)
    /\ event' = Event("handleSendMessage", <<>>, 0)
    /\ UNCHANGED <<appSettings, appProducts, now>>
    /\ UNCHANGED notApp

\* a handler that reads the catalog as it is when findRelevantProducts runs
CurrentProducts(turn, current) == current

\* part_000:149-151 and 199: findRelevantProducts and handleSendMessage are
\* closures of one render, so the products the turn reads are those of the
\* render in which the submit was made, whatever the catalog is by now
ClosureProducts(turn, current) == turn.seen

\* part_000:104-115 and 199-209: loadProducts from the settlement of
\* wooCommerceService.getProducts(20) on, then handleSendMessage up to its
\* completion call; findRelevantProducts reads the products of the render the
\* handler was created in
LoadProductsSettle(i, result) ==
    /\ appTurns[i].pc = "loadProducts"
    /\ result \in FetchProductsResults
    /\ IF result.kind = "resolve"
       THEN /\ appProducts' = result.value
            /\ UNCHANGED appMessages
       ELSE /\ appMessages' = AddMessage(appMessages, "assistant", LoadFailedText, NULL, now)
            /\ UNCHANGED appProducts
    /\ isLoadingProducts' = FALSE
    /\ appTurns' = [appTurns EXCEPT
                       ![i].pc = "completion",
                       ![i].relevant =
                           FindRelevantProducts(appTurns[i].userMessage,
                                                ClosureProducts(appTurns[i],
                                                                appProducts'))]
    /\ storage' = SaveEffect(appMessages', storage)
    /\ event' = Event("loadProducts", <<result.cause>>, i)
    /\ UNCHANGED <<appIsLoading, isSettingsOpen, appSettings, now>>
    /\ UNCHANGED notApp

\* part_000:209-218, handleSendMessage from the settlement of
\* openAIService.sendMessage on
AppCompletionSettle(i, result) ==
    LET relevantProducts == appTurns[i].relevant
    IN  /\ appTurns[i].pc = "completion"
        /\ result \in AppCompletionResults
        /\ appMessages' =
               IF result.kind = "resolve"
               THEN AddMessage(appMessages, "assistant", result.value,
                               IF Len(relevantProducts) > 0 THEN Some(relevantProducts)
                               ELSE NULL, now)
               ELSE AddMessage(appMessages, "assistant", AppErrorText(result.err), NULL, now)
        /\ appIsLoading' = FALSE
        /\ appTurns' = WithoutTurn(appTurns, i)
        /\ storage' = SaveEffect(appMessages', storage)
        /\ event' = Event("completion", <<result.cause>>, i)
        /\ UNCHANGED <<isLoadingProducts, isSettingsOpen, appSettings, appProducts, now>>
        /\ UNCHANGED notApp

\* part_000:221-226; confirmed is the answer to window.confirm
HandleClearChat(confirmed) ==
    /\ IF confirmed
       THEN appMessages' = <<>> /\ storage' = NULL
       ELSE UNCHANGED <<appMessages, storage>>
    /\ event' = Event("handleClearChat", <<>>, 0)
    /\ UNCHANGED <<appIsLoading, isLoadingProducts, isSettingsOpen, appSettings,
                   appProducts, appTurns, now>>
    /\ UNCHANGED notApp

\* part_000:30-83: the page is loaded again; the state of the App is built anew
\* from the storage and the calls of the old page are gone
Reload ==
    /\ appMessages' = LoadMessages(storage)
    /\ storage' = SaveEffect(LoadMessages(storage), storage)
    /\ appIsLoading' = FALSE
    /\ isLoadingProducts' = FALSE
    /\ isSettingsOpen' = FALSE
    /\ appTurns' = <<>>
    /\ appProducts' = <<>>
    /\ event' = Event("reload", <<>>, 0)
    /\ UNCHANGED <<appSettings, now>>
    /\ UNCHANGED notApp

\* Date.now() (part_000:140): a millisecond passes
AppTick ==
    /\ now < MaxTime
    /\ now' = now + 1
    /\ event' = Event("tick", <<>>, 0)
    /\ UNCHANGED appVars
    /\ UNCHANGED appProducts
    /\ UNCHANGED notApp

\* what the customer types into the App
AppQuestions == {WirelessMouseQuery}

AppNext ==
    \/ \E q \in AppQuestions : HandleSendMessage(q)
    \/ \E i \in DOMAIN appTurns : \E result \in FetchProductsResults :
           LoadProductsSettle(i, result)
    \/ \E i \in DOMAIN appTurns : \E result \in AppCompletionResults :
           AppCompletionSettle(i, result)
    \/ \E confirmed \in BOOLEAN : HandleClearChat(confirmed)
    \/ Reload
    \/ AppTick

-----------------------------------------------------------------------------
(* useChat *)

Message(prefix, role, content, t) ==
    [id |-> <<prefix, t>>, role |-> role, content |-> content, timestamp |-> t]

\* useProducts.ts:21-23, the state of useProducts at its first render
UseProductsInit ==
    /\ upProducts = <<>>
    /\ upIsLoading = FALSE
    /\ upError = NULL
    /\ upFetches = <<>>

HookInit ==
    /\ messages = <<>>
    /\ isLoading = FALSE
    /\ error = NULL
    /\ lastUserMessageRef = <<>>
    /\ abortControllerRef = 0
    /\ renderedIsLoading = FALSE
    /\ sends = <<>>
    /\ now = 0
    /\ event = Event("init", <<>>, 0)
    /\ steps = <<>>
    /\ UseProductsInit

\* no catalog loaded, nothing asked
NoScorer == appProducts = <<>> /\ scorerQuery = <<>> /\ ScorerInit

\* the App mounted over an empty storage with complete settings
NoApp == AppMounted(NULL) /\ appSettings = Settings(TRUE, TRUE, TRUE, TRUE)

Init == HookInit /\ SvcInit(TRUE) /\ NoScorer /\ NoApp

ServiceInit == HookInit /\ (\E key \in BOOLEAN : SvcInit(key)) /\ NoScorer /\ NoApp

AppInit ==
    /\ HookInit
    /\ SvcInit(TRUE)
    /\ NoScorer
    /\ AppMounted(NULL)
    /\ appSettings \in SavedSettings

AppSpec == AppInit /\ [][AppNext]_vars

ScorerSpecInit ==
    /\ HookInit
    /\ SvcInit(TRUE)
    /\ NoApp
    /\ appProducts \in CatalogsUpTo(MaxProducts)
    /\ scorerQuery \in Queries
    /\ ScorerInit

ScorerNext == ScoreAndRender

ScorerSpec == ScorerSpecInit /\ [][ScorerNext]_vars

ServiceSpec == ServiceInit /\ [][ServiceNext]_vars

\* AbortController.abort() on the controller of send r
Abort(calls, r) == [calls EXCEPT ![r].aborted = TRUE]

\* if (abortControllerRef.current) abortControllerRef.current.abort()
AbortCurrent(calls, ref) == IF ref # 0 THEN Abort(calls, ref) ELSE calls

\* a guard that tests the raw text
SendAcceptedUntrimmed(content, loading) == ~(content = <<>> \/ loading)

\* useChat.ts:38, the guard of sendMessage: an accepted content
SendAccepted(content, loading) == ~(Trim(content) = <<>> \/ loading)

\* the statements in an order that appends the user message before it
\* remembers the text
AppendThenRemember(ref) ==
    (IF ref # 0 THEN <<"abort">> ELSE <<>>)
        \o <<"new AbortController", "setMessages", "lastUserMessageRef",
             "setIsLoading", "setError", "getChatCompletion">>

\* useChat.ts:42-67, the statements an accepted sendMessage runs up to its
\* await, in program order: abort (43-45, when the ref holds a controller),
\* new AbortController (48), lastUserMessageRef.current (57), setMessages (58),
\* setIsLoading (59), setError (60), getChatCompletion (62-66)
SendMessageSteps(ref) ==
    (IF ref # 0 THEN <<"abort">> ELSE <<>>)
        \o <<"new AbortController", "lastUserMessageRef", "setMessages",
             "setIsLoading", "setError", "getChatCompletion">>

\* useChat.ts:37-67, sendMessage up to its await, run on the transcript msgs
SendMessageOn(msgs, content) ==
    IF SendAccepted(content, renderedIsLoading)
    THEN /\ Len(sends) < MaxSends
         /\ sends' = Append(AbortCurrent(sends, abortControllerRef),
                            [content |-> Trim(content), aborted |-> FALSE,
                             result |-> Pending])
         /\ abortControllerRef' = Len(sends) + 1
         /\ lastUserMessageRef' = Trim(content)
         /\ messages' = Append(msgs, Message("user", "user", Trim(content), now))
         /\ isLoading' = TRUE
         /\ error' = NULL
         /\ steps' = SendMessageSteps(abortControllerRef)
    ELSE /\ messages' = msgs
         /\ steps' = <<>>
         /\ UNCHANGED <<isLoading, error, lastUserMessageRef, abortControllerRef, sends>>

SendMessage(content) ==
    /\ SendMessageOn(messages, content)
    /\ event' = Event("sendMessage", content, 0)
    /\ UNCHANGED <<renderedIsLoading, now>>
    /\ UNCHANGED outside

\* a test of the message instead of the name
IsAbortErrorByMessage(err) == err.isError /\ err.message = <<"AbortError">>

\* useChat.ts:80, err instanceof Error && err.name === 'AbortError'
IsAbortError(err) == err.isError /\ err.name = "AbortError"

\* a fixed text, whatever was thrown
GenericErrorMessage(err) == <<"Failed to get response from AI">>

\* useChat.ts:84
ErrorMessageOf(err) ==
    IF err.isError THEN err.message ELSE <<"Failed to get response from AI">>

\* useChat.ts:91
Apology(errorMessage) ==
    <<"I apologize, but I encountered an error: ">> \o errorMessage
        \o <<". Please try again.">>

\* a success path that leaves the error state as it is
OnReplyKeepsError(msgs, err, reply, t) ==
    [messages |-> Append(msgs, Message("assistant", "assistant", reply, t)),
     error |-> err]

\* useChat.ts:69-77, the transcript and the error state after the reply arrived
OnReply(msgs, err, reply, t) ==
    [messages |-> Append(msgs, Message("assistant", "assistant", reply, t)),
     error |-> NULL]

\* useChat.ts:78-94, the transcript and the error state after the catch block
OnThrown(msgs, err, thrown, t) ==
    IF IsAbortError(thrown)
    THEN [messages |-> msgs, error |-> err]
    ELSE [messages |-> Append(msgs, Message("error", "assistant",
                                            Apology(ErrorMessageOf(thrown)), t)),
          error |-> Some(ErrorMessageOf(thrown))]

\* a finally block that leaves the flag as it is
KeepIsLoading(loading) == loading

\* useChat.ts:95-98, the finally block
FinallyIsLoading(loading) == FALSE
FinallyController(ref) == 0

\* useChat.ts:62-98, sendMessage from the settlement of its await on: what it
\* does to the hook
SettleHook(r, result) ==
    LET after == IF result.kind = "resolve"
                 THEN OnReply(messages, error, result.value, now)
                 ELSE OnThrown(messages, error, result.err, now)
    IN  /\ sends[r].result.kind = "pending"
        /\ result \in GetChatCompletionResults(sends[r].aborted)
        /\ sends' = [sends EXCEPT ![r] = Settled]
        /\ messages' = after.messages
        /\ error' = after.error
        /\ isLoading' = FinallyIsLoading(isLoading)
        /\ abortControllerRef' = FinallyController(abortControllerRef)
        /\ event' = Event("settle", <<result.cause>>, r)
        /\ steps' = <<>>
        /\ UNCHANGED <<lastUserMessageRef, renderedIsLoading, now>>

\* useChat.ts:62-98, sendMessage from the settlement of its await on
Settle(r, result) == SettleHook(r, result) /\ UNCHANGED outside

\* an updater that removes nothing
DropNothing(prev) == prev

\* an updater that drops the last message, whatever its role
DropLastMessage(prev) ==
    IF Len(prev) > 0 THEN SubSeq(prev, 1, Len(prev) - 1) ELSE prev

\* useChat.ts:104-110, the updater that drops a trailing assistant message
DropLastAssistant(prev) ==
    IF Len(prev) > 0 /\ prev[Len(prev)].role = "assistant"
    THEN SubSeq(prev, 1, Len(prev) - 1)
    ELSE prev

\* the kind of the message the updater of useChat.ts:104-110 removed from prev
\* ("user", "assistant" or "error", the prefix of its id), if it removed one
Dropped(prev) ==
    IF DropLastAssistant(prev) # prev THEN <<prev[Len(prev)].id[1]>> ELSE <<>>

\* useChat.ts:102, the guard of retryLastMessage
RetryAccepted(last, loading) == last # <<>> /\ ~loading

\* useChat.ts:101-114, what retryLastMessage does to the hook
RetryLastMessageHook ==
    /\ IF RetryAccepted(lastUserMessageRef, renderedIsLoading)
       THEN SendMessageOn(DropLastAssistant(messages), lastUserMessageRef)
       ELSE /\ steps' = <<>>
            /\ UNCHANGED <<messages, isLoading, error, lastUserMessageRef,
                           abortControllerRef, sends>>
    /\ event' = Event("retryLastMessage",
                      IF RetryAccepted(lastUserMessageRef, renderedIsLoading)
                      THEN Dropped(messages) ELSE <<>>, 0)
    /\ UNCHANGED <<renderedIsLoading, now>>

\* useChat.ts:101-114
RetryLastMessage == RetryLastMessageHook /\ UNCHANGED outside

\* useChat.ts:116-126, what clearMessages does to the hook
ClearMessagesHook ==
    /\ messages' = <<>>
    /\ error' = NULL
    /\ lastUserMessageRef' = <<>>
    /\ sends' = AbortCurrent(sends, abortControllerRef)
    /\ abortControllerRef' = 0
    /\ event' = Event("clearMessages", <<>>, 0)
    /\ steps' = <<>>
    /\ UNCHANGED <<isLoading, renderedIsLoading, now>>

\* useChat.ts:116-126
ClearMessages == ClearMessagesHook /\ UNCHANGED outside

\* useChat.ts:99,114: sendMessage and retryLastMessage are rebuilt, with the
\* current isLoading, by the render that follows a state change
RenderHook ==
    /\ renderedIsLoading # isLoading
    /\ renderedIsLoading' = isLoading
    /\ event' = Event("render", <<>>, 0)
    /\ steps' = <<>>
    /\ UNCHANGED <<messages, isLoading, error, lastUserMessageRef,
                   abortControllerRef, sends, now>>

Render == RenderHook /\ UNCHANGED outside

Next ==
    \/ \E content \in Inputs : SendMessage(content)
    \/ \E r \in DOMAIN sends : \E result \in GetChatCompletionResults(sends[r].aborted) :
           Settle(r, result)
    \/ RetryLastMessage
    \/ ClearMessages
    \/ Render

Spec == Init /\ [][Next]_vars

\* Settlements are not starved, and a state change is followed by a render.
FairSpec ==
    /\ Spec
    /\ WF_vars(Render)
    /\ WF_vars(\E r \in DOMAIN sends :
                   \E result \in GetChatCompletionResults(sends[r].aborted) :
                       Settle(r, result))

-----------------------------------------------------------------------------
(* useChat under a running clock *)

\* Date.now() (useChat.ts:51,70,89): a millisecond passes between two steps
Tick ==
    /\ now < MaxTime
    /\ now' = now + 1
    /\ event' = Event("tick", <<>>, 0)
    /\ steps' = <<>>
    /\ UNCHANGED hookVars
    /\ UNCHANGED outside

ClockNext ==
    \/ Next
    \/ Tick

ClockSpec == Init /\ [][ClockNext]_vars

-----------------------------------------------------------------------------
(* Properties of useChat *)

IsPending(call) == call.result.kind = "pending"

\* issued, and neither completed nor cancelled
InFlight(call) == IsPending(call) /\ ~call.aborted

LiveSends == {r \in DOMAIN sends : InFlight(sends[r])}

IsBlank(text) == \A i \in 1..Len(text) : text[i] = " "

\* send r settles in this step
Settles(r) == IsPending(sends[r]) /\ ~IsPending(sends'[r])

\* C1: in every reachable state at most one completion request is in flight
\* (issued and neither completed nor cancelled).
C1_AtMostOneInFlight == Cardinality(LiveSends) <= 1

\* C2: a sendMessage call made while a previous send is in flight changes
\* neither the transcript nor the set of issued requests.
C2_SubmitInFlightIsNoOp ==
    [][(event'.op = "sendMessage" /\ LiveSends # {})
          => (messages' = messages /\ sends' = sends)]_vars

\* C3: the step that cancels a send leaves the error state unset and, when it is
\* a second send, keeps the user turn of the cancelled send in the transcript;
\* the settlement of a cancelled send appends no message and sets no error.
C3_CancelledSendIsSilent ==
    [][\A r \in DOMAIN sends :
          /\ (InFlight(sends[r]) /\ sends'[r].aborted)
                => /\ error' = NULL
                   /\ event'.op \in {"sendMessage", "retryLastMessage"}
                        => \E i \in 1..Len(messages') :
                              /\ messages'[i].role = "user"
                              /\ messages'[i].content = sends[r].content
          /\ (Settles(r) /\ sends[r].aborted)
                => (messages' = messages /\ error' = error)]_vars

\* a send cancelled by a later send has settled: both user turns are in the
\* transcript, and nothing else
C3_Witness ==
    /\ event.op = "settle"
    /\ event.text = <<"abort">>
    /\ Len(messages) = 2
    /\ \A i \in 1..Len(messages) : messages[i].role = "user"
    /\ error = NULL

\* C4: right after clearMessages the transcript is empty, the error state is
\* unset, the remembered user text is empty and no request is in flight.
C4_ClearResets ==
    [][event'.op = "clearMessages"
          => /\ messages' = <<>>
             /\ error' = NULL
             /\ lastUserMessageRef' = <<>>
             /\ \A r \in DOMAIN sends' : ~InFlight(sends'[r])]_vars

\* the human-readable message of each failure of the completion call
FailureText(cause) ==
    CASE cause = "401" -> <<"invalid api key">>
      [] cause = "500" -> <<"HTTP error! status: 500">>
      [] cause = "502" -> <<"An unknown error occurred">>

C6_RetryIsNoOp ==
    [][(event'.op = "retryLastMessage" /\ (lastUserMessageRef = <<>> \/ LiveSends # {}))
          => UNCHANGED <<messages, error, isLoading, lastUserMessageRef,
                         abortControllerRef, sends>>]_vars

C9_LeavingSendingGoesIdle ==
    /\ [][\A r \in DOMAIN sends :
             Settles(r) => (~isLoading' /\ abortControllerRef' = 0)]_vars
    /\ (isLoading ~> (~isLoading /\ ~renderedIsLoading))

C9_Witness ==
    /\ event.op = "settle"
    /\ ~isLoading
    /\ ~renderedIsLoading
    /\ abortControllerRef = 0
    /\ LiveSends = {}

-----------------------------------------------------------------------------
(* Identifiers and timestamps *)

IdsDistinct(msgs) ==
    \A i, j \in 1..Len(msgs) : i # j => msgs[i].id # msgs[j].id

TimestampsOrdered(msgs) ==
    \A i, j \in 1..Len(msgs) : i < j => msgs[i].timestamp <= msgs[j].timestamp

\* C11: in every reachable transcript the message ids are pairwise distinct and
\* the timestamps are non-decreasing in list order, also when two messages are
\* created within the same millisecond.
C11_IdsDistinctTimestampsOrdered ==
    IdsDistinct(messages) /\ TimestampsOrdered(messages)

\* the timestamp half of C11 on its own
TimestampsNonDecreasing == TimestampsOrdered(messages)

-----------------------------------------------------------------------------
(* Properties of OpenAIService *)

Last(seq) == seq[Len(seq)]

CallPending(call) == call.pc \in {"products", "completion"}
CallEnded(call) == call.pc \in {"returned", "thrown"}

\* a conversation window: the system instruction, then no system message
IsWindow(history) ==
    /\ Len(history) >= 1
    /\ history[1] = ChatMessage("system", SYSTEM_PROMPT)
    /\ \A k \in 2..Len(history) : history[k].role # "system"

\* C12: the body of every completion request, and the history the next one will
\* be built from, has the system instruction as its first element and no other
\* system message, whatever sends and clearConversation calls came before; and
\* getConversationHistory returns no system message.
C12_SystemInstructionFirstAndOnly ==
    /\ IsWindow(conversationHistory)
    /\ \A i \in DOMAIN svcCalls :
           svcCalls[i].posts > 0 /\ CallPending(svcCalls[i]) => IsWindow(svcCalls[i].request)
    /\ \A k \in DOMAIN GetConversationHistory(conversationHistory) :
           GetConversationHistory(conversationHistory)[k].role # "system"

\* a request posted after a reply was recorded and the conversation cleared
C12_Witness ==
    \E i, j \in DOMAIN svcCalls :
        /\ svcCalls[i].pc = "returned"
        /\ svcCalls[j].pc = "completion"
        /\ Len(svcCalls[j].request) = 2
        /\ conversationHistory = svcCalls[j].request

\* C13: a call whose caller aborted the signal while the call was pending ends
\* by throwing an AbortError.
C13_AbortedCallThrowsAbortError ==
    [][\A i \in DOMAIN svcCalls :
          (svcCalls[i].signal /\ CallPending(svcCalls[i]) /\ CallEnded(svcCalls'[i]))
              => (svcCalls'[i].pc = "thrown" /\ svcCalls'[i].err.name = "AbortError")]_vars

\* C14: no call issues more than one request to the store or more than one to
\* the completion API, also after a failure: a further request takes a further
\* call.
C14_NoAutomaticRetry ==
    \A i \in DOMAIN svcCalls : svcCalls[i].gets <= 1 /\ svcCalls[i].posts <= 1

\* a call whose POST failed, and a later call that posted again
C14_Witness ==
    \E i, j \in DOMAIN svcCalls :
        /\ i < j
        /\ svcCalls[i].pc = "thrown" /\ svcCalls[i].posts = 1
        /\ svcCalls[j].posts = 1

\* C16: the step in which the catalog request of a call fails posts the
\* completion request of that call, with the product context "Product
\* information is currently unavailable."
C16_CatalogFailureKeepsTurn ==
    [][\A i \in DOMAIN svcCalls :
          (svcCalls[i].pc = "products" /\ svcCalls'[i].fetched = "failed")
              => /\ svcCalls'[i].pc = "completion"
                 /\ svcCalls'[i].posts = 1
                 /\ Last(svcCalls'[i].request) =
                        ChatMessage("user",
                            EnhanceMessageWithContext(
                                <<"Product information is currently unavailable.">>,
                                svcCalls[i].userMessage))]_vars

\* a turn whose catalog request failed and whose completion returned a reply
C16_Witness ==
    \E i \in DOMAIN svcCalls :
        svcCalls[i].fetched = "failed" /\ svcCalls[i].pc = "returned"

\* C17: a call made with a populated cache not older than CACHE_DURATION issues
\* no catalog request and sends the cached list as context; a call made with an
\* empty cache, or with one older than CACHE_DURATION, issues a catalog request;
\* nothing else does.
C17_CacheIsLazyAndExpires ==
    [][/\ Len(svcCalls') = Len(svcCalls) + 1 /\ apiKey
           => LET call == Last(svcCalls')
              IN  IF productCache # <<>> /\ now - productCacheTime <= CACHE_DURATION
                  THEN /\ call.gets = 0
                       /\ call.pc = "completion"
                       /\ Last(call.request).content =
                              EnhanceMessageWithContext(FormatProductsForAI(productCache),
                                                        call.userMessage)
                  ELSE call.gets = 1 /\ call.pc = "products"
       /\ \A i \in DOMAIN svcCalls : svcCalls'[i].gets = svcCalls[i].gets
       /\ productCache' # productCache
           => \E i \in DOMAIN svcCalls :
                  svcCalls[i].pc = "products" /\ svcCalls'[i].fetched = "ok"]_vars

\* a call that was answered from the cache
C17_Witness ==
    \E i \in DOMAIN svcCalls :
        /\ svcCalls[i].gets = 0 /\ svcCalls[i].pc = "completion"
        /\ productCache # <<>>
        /\ Last(svcCalls[i].request).content =
               EnhanceMessageWithContext(FormatProductsForAI(productCache),
                                         svcCalls[i].userMessage)

\* a call that refreshes a populated cache older than CACHE_DURATION
CacheRefreshed ==
    \E i \in DOMAIN svcCalls :
        /\ svcCalls[i].pc = "products" /\ productCache # <<>>
        /\ \A j \in DOMAIN svcCalls : j # i => CallEnded(svcCalls[j])
        /\ svcCalls[i].t0 - productCacheTime > CACHE_DURATION

-----------------------------------------------------------------------------
(* Properties of the relevance scorer *)

ScoreOf(product) == Score(product, Keywords(scorerQuery))

\* C18: for every query and every non-empty catalog, findRelevantProducts
\* returns at most 5 products, in an order of non-increasing score.
C18_AtMostFiveByDescendingScore ==
    (scorerDone /\ appProducts # <<>>)
        => LET keywords == Keywords(scorerQuery)
               scores == [i \in DOMAIN scorerOutput |-> Score(scorerOutput[i], keywords)]
           IN  /\ Len(scorerOutput) <= 5
               /\ \A i, j \in DOMAIN scorerOutput : i < j => scores[i] >= scores[j]

\* more than 5 products match, with different scores, in ascending catalog order
C18_Witness ==
    /\ scorerDone
    /\ Cardinality({i \in DOMAIN appProducts : ScoreOf(appProducts[i]) > 0}) > 5
    /\ ScoreOf(appProducts[1]) < ScoreOf(appProducts[Len(appProducts)])
    /\ Len(scorerOutput) = 5
    /\ ScoreOf(scorerOutput[1]) > ScoreOf(scorerOutput[5])

\* where the products of one name come in a list
Places(list, product) == {i \in DOMAIN list : list[i] = product}

-----------------------------------------------------------------------------
(* Properties of the App *)

\* the API key, the store URL and both store credentials are set
AllCredentials(s) == s.openaiApiKey /\ StoreConfigured(s)

\* C15: a handleSendMessage call made while a credential is missing starts no
\* catalog or completion request, leaves the conversation window as it is and
\* appends one assistant message that asks for the configuration.
C15_MissingCredentialsShortCircuit ==
    [][(event'.op = "handleSendMessage" /\ ~AllCredentials(appSettings))
          => /\ appTurns' = appTurns
             /\ conversationHistory' = conversationHistory
             /\ Len(appMessages') = Len(appMessages) + 1
             /\ Last(appMessages').role = "assistant"
             /\ Last(appMessages').content \in {ApiKeyPrompt, StorePrompt}]_vars

\* C20: the transcript the App would load from its storage is the transcript
\* it shows: the same messages in the same order, their timestamps time values
\* again; in particular it is empty after a confirmed clear.
C20_TranscriptRoundTrips == LoadMessages(storage) = appMessages

\* a page loaded again over a stored transcript of messages of different times
C20_Witness ==
    /\ event.op = "reload"
    /\ Len(appMessages) >= 2
    /\ appMessages[1].timestamp # Last(appMessages).timestamp
    /\ appMessages[1].timestamp = Date(0)

\* a page loaded again after a confirmed clear of a stored transcript
ReloadedEmpty ==
    event.op = "reload" /\ appMessages = <<>> /\ storage = NULL /\ now > 0

-----------------------------------------------------------------------------
(* later claims about useChat *)

\* C21: while the request of the latest send is in flight, isLoading is true
\* and the stored cancellation handle is the handle of that request.
C21_LaterSendKeepsFlagAndHandle ==
    (sends # <<>> /\ InFlight(Last(sends)))
        => (isLoading /\ abortControllerRef = Len(sends))

\* C22: once the App's transcript was cleared it stays empty, in the page and
\* in the storage, until the next submit: no step other than a submit (or
\* loading the page again) appends to an empty transcript.
C22_ClearedTranscriptStaysEmpty ==
    [][(appMessages = <<>> /\ event'.op \notin {"handleSendMessage", "reload"})
          => (appMessages' = <<>> /\ storage' = storage)]_vars

\* the place of a statement in a run of statements (0: it did not run)
StepAt(ran, stmt) ==
    IF \E i \in 1..Len(ran) : ran[i] = stmt
    THEN CHOOSE i \in 1..Len(ran) : ran[i] = stmt
    ELSE 0

\* the statements of order that ran, ran in that order
RanInOrder(ran, order) ==
    \A i, j \in 1..Len(order) :
        (i < j /\ StepAt(ran, order[i]) > 0 /\ StepAt(ran, order[j]) > 0)
            => StepAt(ran, order[i]) < StepAt(ran, order[j])

\* this step is a sendMessage call that passed the guard
AcceptedSubmit == event'.op = "sendMessage" /\ Len(sends') = Len(sends) + 1

\* What an accepted submit has done when it reaches its await: the request of
\* the previous handle (if any) is cancelled, the handle is a fresh one, the
\* user message with the trimmed input is the last of the transcript, the
\* remembered text is the trimmed input, the flag is set, the error is unset,
\* and the new request, issued last, has not returned.
SubmitEffects ==
    /\ abortControllerRef # 0 => sends'[abortControllerRef].aborted
    /\ (StepAt(steps', "abort") > 0) <=> (abortControllerRef # 0)
    /\ abortControllerRef' = Len(sends') /\ abortControllerRef' \notin DOMAIN sends
    /\ messages' = Append(messages, Last(messages'))
    /\ Last(messages').role = "user"
    /\ Last(messages').content = Trim(event'.text)
    /\ lastUserMessageRef' = Trim(event'.text)
    /\ isLoading' /\ error' = NULL
    /\ InFlight(Last(sends'))
    /\ \A stmt \in {"new AbortController", "setMessages", "lastUserMessageRef",
                    "setIsLoading", "setError", "getChatCompletion"} :
           StepAt(steps', stmt) > 0
    /\ Last(steps') = "getChatCompletion"

-----------------------------------------------------------------------------
(* later claims about OpenAIService *)

\* C24: the conversation window is the system instruction followed by
\* alternating user and assistant messages, a user message first; no two
\* consecutive entries have the same role.
C24_WindowAlternates ==
    /\ Len(conversationHistory) >= 1
    /\ conversationHistory[1].role = "system"
    /\ \A k \in 2..Len(conversationHistory) :
           /\ conversationHistory[k].role =
                  IF k % 2 = 0 THEN "user" ELSE "assistant"
           /\ conversationHistory[k].role # conversationHistory[k - 1].role

\* s is an initial part of t
IsPrefix(s, t) == Len(s) <= Len(t) /\ SubSeq(t, 1, Len(s)) = s

\* C25: every step of the hook other than clearMessages leaves the previous
\* transcript as a prefix of the new one.
C25_TranscriptAppendOnly ==
    [][event'.op # "clearMessages" => IsPrefix(messages, messages')]_vars

\* this step is a retryLastMessage call that passed the guard while the last
\* message of the transcript was the error placeholder of a failed turn
RetryAfterFailure ==
    /\ event'.op = "retryLastMessage"
    /\ RetryAccepted(lastUserMessageRef, renderedIsLoading)
    /\ messages # <<>>
    /\ Last(messages).id[1] = "error"

\* C26: a retry after a failed turn removes the trailing error placeholder and
\* nothing else, keeps the user message of the remembered text and appends a
\* second user message with that text; the reply of the retried request is
\* then appended after the two, so that the turn reads user, user, assistant.
C26_RetryKeepsUserMessage ==
    [][/\ RetryAfterFailure
          => /\ messages' = Append(SubSeq(messages, 1, Len(messages) - 1),
                                   Message("user", "user", lastUserMessageRef, now))
             /\ \E i \in 1..(Len(messages) - 1) :
                    /\ messages'[i] = messages[i]
                    /\ messages[i].role = "user"
                    /\ messages[i].content = Last(messages').content
       /\ (event'.op = "settle" /\ event'.text = <<"reply">> /\ Len(messages) >= 2
             /\ messages[Len(messages) - 1].role = "user" /\ Last(messages).role = "user")
          => /\ Len(messages') = Len(messages) + 1
             /\ SubSeq(messages', 1, Len(messages)) = messages
             /\ Last(messages').role = "assistant"]_vars

\* a retry was accepted after the only turn had failed: the placeholder is
\* gone and the user text is in the transcript twice
C26_Witness ==
    /\ event.op = "retryLastMessage"
    /\ event.text = <<"error">>
    /\ Len(sends) = 2
    /\ InFlight(sends[2])
    /\ Len(messages) = 2
    /\ messages[1].role = "user" /\ messages[2].role = "user"
    /\ messages[1].content = <<"a", " ", "b">>
    /\ messages[2].content = messages[1].content

-----------------------------------------------------------------------------
(* useChat over the completion service: the request of a send carries the    *)
(* conversation window of the service (openaiService.ts:97-109), and its     *)
(* reply is recorded in the window (127-130)                                 *)

\* a clear that resets the window of the service as well
ClearedWindow(history) == InitializeConversation

\* useChat.ts:116-126: clearMessages resets the state of the hook and calls
\* nothing of the service; the window of the service after it
ClearMessagesWindow(history) == history

\* openAIService.getChatCompletion up to its request, after
\* openaiService.ts:97-109: the user turn is pushed onto the window and the
\* window is posted
GetChatCompletionStart(accepted, content) ==
    IF accepted
    THEN /\ svcCalls' = Append(svcCalls,
                               PostFrom(NewCall(content, FALSE), conversationHistory,
                                        content))
         /\ conversationHistory' =
                Append(conversationHistory, ChatMessage("user", content))
    ELSE UNCHANGED <<conversationHistory, svcCalls>>

\* openAIService.getChatCompletion from the answer on, after
\* openaiService.ts:117-136: a reply is pushed onto the window, a failure or
\* a cancellation leaves the window as it is
GetChatCompletionEnd(r, result) ==
    IF result.kind = "resolve"
    THEN /\ conversationHistory' =
                Append(conversationHistory, ChatMessage("assistant", result.value))
         /\ svcCalls' = [svcCalls EXCEPT ![r] = ReturnFrom(svcCalls[r], result.value)]
    ELSE /\ svcCalls' = [svcCalls EXCEPT ![r] = ThrowFrom(svcCalls[r], result.err)]
         /\ UNCHANGED conversationHistory

\* the state neither the hook nor the window logic of the service touches
offChat == <<productCache, productCacheTime, apiKey, scorerVars, appVars, productsVars>>

ChatSendMessage(content) ==
    /\ SendMessageOn(messages, content)
    /\ GetChatCompletionStart(SendAccepted(content, renderedIsLoading), Trim(content))
    /\ event' = Event("sendMessage", content, 0)
    /\ UNCHANGED <<renderedIsLoading, now>>
    /\ UNCHANGED offChat

ChatSettle(r, result) ==
    /\ SettleHook(r, result)
    /\ GetChatCompletionEnd(r, result)
    /\ UNCHANGED offChat

ChatRetryLastMessage ==
    /\ RetryLastMessageHook
    /\ GetChatCompletionStart(RetryAccepted(lastUserMessageRef, renderedIsLoading)
                                 /\ SendAccepted(lastUserMessageRef, renderedIsLoading),
                              Trim(lastUserMessageRef))
    /\ UNCHANGED offChat

ChatClearMessages ==
    /\ ClearMessagesHook
    /\ conversationHistory' = ClearMessagesWindow(conversationHistory)
    /\ UNCHANGED svcCalls
    /\ UNCHANGED offChat

ChatRender == RenderHook /\ UNCHANGED outside

ChatNext ==
    \/ \E content \in Inputs : ChatSendMessage(content)
    \/ \E r \in DOMAIN sends : \E result \in GetChatCompletionResults(sends[r].aborted) :
           ChatSettle(r, result)
    \/ ChatRetryLastMessage
    \/ ChatClearMessages
    \/ ChatRender

ChatSpec == Init /\ [][ChatNext]_vars

\* C27: clearMessages empties the transcript and leaves the conversation window
\* of the service as it is; no step of the hook removes an entry of the window;
\* and the request of an accepted submit is the whole window, every turn
\* recorded before a clear included, followed by the new user turn.
C27_ClearKeepsWindow ==
    [][/\ IsPrefix(conversationHistory, conversationHistory')
       /\ event'.op = "clearMessages"
             => (messages' = <<>> /\ conversationHistory' = conversationHistory)
       /\ Len(sends') = Len(sends) + 1
             => /\ Last(svcCalls').request =
                       Append(conversationHistory,
                              ChatMessage("user", Last(sends').content))
                /\ conversationHistory' = Last(svcCalls').request]_vars

\* the first submit after a clear: the transcript holds the new user message
\* only, the request holds the turn answered before the clear as well
C27_Witness ==
    /\ event.op = "sendMessage"
    /\ Len(messages) = 1
    /\ Len(sends) = 2
    /\ InFlight(sends[2])
    /\ Len(svcCalls[2].request) = 4
    /\ svcCalls[2].request[2].role = "user"
    /\ svcCalls[2].request[3] = ChatMessage("assistant", <<"Here are some products.">>)
    /\ svcCalls[2].request[4] = ChatMessage("user", messages[1].content)

-----------------------------------------------------------------------------
(* later claims about the App *)

NoMatchContext ==
    <<"\n\nNo specific products found matching your query, but I can help with general information.">>

\* C28: a turn submitted over an empty catalog computes its relevant products
\* from the empty catalog even when its loadProducts call has filled the
\* catalog with products that match the query: its context is the no-match
\* fallback and its reply carries no product cards; a turn submitted over a
\* loaded catalog computes them from that catalog.
C28_TurnUsesCatalogOfSubmit ==
    [][/\ (event'.op = "loadProducts" /\ event'.text = <<"reply">>)
          => /\ appTurns[event'.req].seen = <<>>
             /\ appProducts' \in Catalogs
             /\ appTurns'[event'.req].relevant = <<>>
             /\ ProductContext(appTurns'[event'.req].relevant) = NoMatchContext
       /\ (event'.op = "completion" /\ event'.text = <<"reply">>
             /\ appTurns[event'.req].seen = <<>>)
          => /\ Len(appMessages') = Len(appMessages) + 1
             /\ Last(appMessages').role = "assistant"
             /\ Last(appMessages').products = NULL
       /\ (event'.op = "handleSendMessage" /\ Len(appTurns') = Len(appTurns) + 1)
          => /\ Last(appTurns').seen = appProducts
             /\ appProducts # <<>>
                   => Last(appTurns').relevant =
                          FindRelevantProducts(Last(appTurns').userMessage, appProducts)]_vars

\* the reply of a turn that was submitted over an empty catalog: the catalog
\* is loaded and holds products that match the query, the reply has no cards
C28_Witness ==
    /\ event.op = "completion"
    /\ event.text = <<"reply">>
    /\ FindRelevantProducts(WirelessMouseQuery, appProducts) # <<>>
    /\ Len(appMessages) = 2
    /\ appMessages[1].content = WirelessMouseQuery
    /\ appMessages[2].role = "assistant"
    /\ appMessages[2].products = NULL
    /\ appTurns = <<>>

\* a later turn on the page sees the loaded catalog: its reply has the cards
LaterTurnHasCards ==
    /\ event.op = "completion"
    /\ appMessages # <<>>
    /\ event.text = <<"reply">>
    /\ Last(appMessages).products =
           Some(FindRelevantProducts(WirelessMouseQuery, appProducts))
    /\ Len(Last(appMessages).products[1]) = 2

-----------------------------------------------------------------------------
(* later claims about findRelevantProducts *)

\* how many products of the catalog come ahead of its i-th product, of
\* positive score: those of a higher score, and those of the same score that
\* come earlier in the catalog
AheadOf(scores, i) ==
    Cardinality({j \in DOMAIN scores :
                    \/ scores[j] > scores[i]
                    \/ scores[j] = scores[i] /\ j < i})

\* the score of every product on offer, for every query
ScoreTable == [query \in Queries |-> [p \in Offered |-> Score(p, Keywords(query))]]

\* whether a product on offer holds a keyword of more than two characters of
\* the query in its name, descriptions or category names
HoldsKeyword ==
    [query \in Queries |->
        [p \in Offered |->
            \E n \in DOMAIN Keywords(query) :
                /\ Len(Keywords(query)[n]) > 2
                /\ Includes(ProductText(p), Keywords(query)[n])]]

\* C29: every product findRelevantProducts returns has a positive score, that
\* is, holds a keyword of the query of more than two characters in its name,
\* descriptions or category names; the products of positive score come out by
\* descending score and, within one score, in catalog order; and one is left
\* out only when 5 products that rank at or above it are returned.
C29_PositiveStableTopFive ==
    scorerDone
        => LET scores == [i \in DOMAIN appProducts |->
                             ScoreTable[scorerQuery][appProducts[i]]]
           IN  /\ \A k \in DOMAIN scorerOutput :
                      /\ ScoreTable[scorerQuery][scorerOutput[k]] > 0
                      /\ HoldsKeyword[scorerQuery][scorerOutput[k]]
               /\ \A i \in DOMAIN appProducts :
                      scores[i] > 0
                          => IF AheadOf(scores, i) < 5
                             THEN /\ AheadOf(scores, i) < Len(scorerOutput)
                                  /\ scorerOutput[AheadOf(scores, i) + 1] = appProducts[i]
                             ELSE /\ Len(scorerOutput) = 5
                                  /\ \A k \in DOMAIN scorerOutput :
                                         ScoreTable[scorerQuery][scorerOutput[k]]
                                             >= scores[i]

\* six products match "mouse": the Mouse Pad and the Wireless Mouse, of one
\* score, come out in their catalog order, and the USB Cable, of a lower
\* score, is left out behind five of them
C29_Witness ==
    /\ scorerDone
    /\ scorerQuery = MouseQuery
    /\ Len(appProducts) = 6
    /\ appProducts[1] = UsbCable
    /\ appProducts[2] = MousePad
    /\ appProducts[3] = WirelessMouse
    /\ ScoreOf(MousePad) = ScoreOf(WirelessMouse)
    /\ ScoreOf(UsbCable) > 0
    /\ Len(scorerOutput) = 5
    /\ scorerOutput[1] = MousePad
    /\ scorerOutput[2] = WirelessMouse
    /\ UsbCable \notin Range(scorerOutput)

-----------------------------------------------------------------------------
(* useProducts *)

MaxFetches == 3  \* fetchProducts calls per behaviour

\* The ways wooCommerceService.getProducts(params) settles: the list of
\* products, an Error (cause: its status), or a thrown value that is no Error.
GetProductsResults ==
    FetchProductsResults \cup {Reject("thrown", Thrown(FALSE, "", <<>>))}

\* a catch block that leaves the list as it is
KeepProducts(prev) == prev

\* useProducts.ts:45, setProducts([]) in the catch block
ProductsAfterFailure(prev) == <<>>

\* useProducts.ts:43
FetchErrorMessage(err) ==
    IF err.isError THEN err.message ELSE <<"Failed to fetch products">>

\* useProducts.ts:25-39, fetchProducts up to its await; the mount effect
\* (52-56, autoFetch) and refetch (62) both call it
FetchProducts ==
    /\ Len(upFetches) < MaxFetches
    /\ upIsLoading' = TRUE
    /\ upError' = NULL
    /\ upFetches' = Append(upFetches, "pending")
    /\ event' = Event("fetchProducts", <<>>, Len(upFetches) + 1)
    /\ UNCHANGED upProducts
    /\ UNCHANGED <<hookVars, steps, now, svcVars, scorerVars, appVars>>

\* useProducts.ts:39-49, fetchProducts from the settlement of its await on
FetchSettle(i, result) ==
    /\ upFetches[i] = "pending"
    /\ result \in GetProductsResults
    /\ IF result.kind = "resolve"
       THEN /\ upProducts' = result.value
            /\ upError' = NULL
       ELSE /\ upError' = Some(FetchErrorMessage(result.err))
            /\ upProducts' = ProductsAfterFailure(upProducts)
    /\ upIsLoading' = FALSE
    /\ upFetches' = [upFetches EXCEPT ![i] = result.kind]
    /\ event' = Event("fetchSettle", <<result.cause>>, i)
    /\ UNCHANGED <<hookVars, steps, now, svcVars, scorerVars, appVars>>

ProductsNext ==
    \/ FetchProducts
    \/ \E i \in DOMAIN upFetches : \E result \in GetProductsResults :
           FetchSettle(i, result)

ProductsSpec == Init /\ [][ProductsNext]_vars

\* C30: in every state of useProducts a non-null error comes with an empty
\* product list, whatever the order in which overlapping fetchProducts calls
\* complete: a failed fetch empties the list and records the error, a
\* successful fetch replaces the list by the one fetched and clears the
\* error, and starting a fetch clears the error.
C30_ErrorImpliesNoProducts ==
    [][/\ upError # NULL => upProducts = <<>>
       /\ upError' # NULL => upProducts' = <<>>
       /\ (event'.op = "fetchSettle" /\ event'.text \notin {<<"reply">>})
             => (upProducts' = <<>> /\ upError' # NULL)
       /\ (event'.op = "fetchSettle" /\ event'.text = <<"reply">>)
             => (upProducts' \in Catalogs /\ upError' = NULL)
       /\ event'.op = "fetchProducts"
             => (upError' = NULL /\ upProducts' = upProducts)]_vars

\* two overlapping calls completed out of order: the second one loaded the
\* list, then the first one failed
C30_Witness ==
    /\ event.op = "fetchSettle"
    /\ event.req = 1
    /\ Len(upFetches) >= 2
    /\ upFetches[1] = "reject"
    /\ upFetches[2] = "resolve"
    /\ upError = Some(<<"Failed to fetch products">>)
    /\ upProducts = <<>>

====
